---------------------------- MODULE Spec2Model ----------------------------
(***************************************************************************)
(* topo_order_commits.py: the commit graph of a git repository is built    *)
(* from the loose commit objects and the branch heads, sorted              *)
(* topologically and printed in the "sticky" format.                       *)
(*                                                                         *)
(* The repository on disk is the pair (refs, objects); the program state   *)
(* is what topo_order_commits() holds from the call of build_commit_graph  *)
(* on.  Every loop of the program advances by one iteration per step.      *)
(*                                                                         *)
(* Commit hashes are the strings of HashNames.  The program compares       *)
(* hashes for equality only, so the objects are named after the position   *)
(* at which os.walk enumerates them; the order in which the ref files are  *)
(* enumerated, what they point at and what every object lists as parents   *)
(* is free.  A hash without an object file is a missing commit.            *)
(***************************************************************************)
EXTENDS Integers, Sequences, FiniteSets, TLC

\* Size of a repository: object files + parent lines + ref files.
MaxSize == 7

\* sha1 names in lexicographic order; one of them is always left without
\* an object, so that a missing commit can be referenced.
HashNames == <<"a", "b", "c", "d", "e">>

\* The model follows a worklist up to this length; no run comes near it
\* (C10_Terminates).
MaxWorklist == 2 * MaxSize

\* Path of the i-th ref file that os.walk yields under refs/heads.
BranchPaths == <<"main", "dev", "fix">>

\* Branch names in the order of str.__lt__.
NameOrder == <<"dev", "fix", "main">>

VARIABLES
    refs,                 \* files under .git/refs/heads, in os.walk order
    objects,              \* commit objects under .git/objects, in os.walk order
    branches,             \* dict sha1 -> [names], in insertion order
    commits,              \* list of CommitObject
    root_commits,         \* list of hashes; the worklist of topological_sort
    visited,              \* dict hash -> bool of build_commit_graph
    processing_list,      \* worklist of build_commit_graph
    it,                   \* position of the running for-loop's iterator
    sorted_list,          \* result of topological_sort
    topo_ordered_commits, \* sorted_list reversed
    prev_empty,           \* flag of print_sticky_sorted_order
    stdout,               \* lines written to sys.stdout
    stderr,               \* messages the program wrote to sys.stderr
    pc                    \* where the run is

vars == <<refs, objects, branches, commits, root_commits, visited,
          processing_list, it, sorted_list, topo_ordered_commits,
          prev_empty, stdout, stderr, pc>>

-----------------------------------------------------------------------------
(* Python values *)

\* None, as returned by grab_corresponding_commit and dict.get; also the
\* padding of zip(..., ... + [None]).
None == 0
NoneHash == "None"

\* The one value of a singleton set.  `Only({e(v) : v \in {x}})` is e(x) with
\* x evaluated once, however often e uses it.
Only(S) == CHOOSE v \in S : TRUE

Range(s0) == UNION {{s[i] : i \in 1..Len(s)} : s \in {s0}}

\* list.index(x) counted from 1, None when x is not in the list
IndexOf(s0, x0) ==
    Only({IF found = {} THEN None ELSE CHOOSE i \in found : \A j \in found : i <= j :
          found \in {UNION {{i \in 1..Len(s) : s[i] = x} : s \in {s0}, x \in {x0}}}})

\* del s[i]
ListRemoveAt(s0, i0) ==
    Only({[j \in 1..(Len(s) - 1) |-> IF j < i THEN s[j] ELSE s[j + 1]] :
          s \in {s0}, i \in {i0}})

\* list.remove(x) for x in the list: the first occurrence goes.
ListRemove(s, x) == ListRemoveAt(s, IndexOf(s, x))

RECURSIVE Reverse(_)
Reverse(s) == IF s = <<>> THEN <<>> ELSE Append(Reverse(Tail(s)), Head(s))

\* d[k] = v on a dict kept as a function
DictPut(d0, k0, v) ==
    Only({[x \in (DOMAIN d) \cup {k} |-> IF x = k THEN v ELSE d[x]] :
          d \in {d0}, k \in {k0}})

\* print(*args): the arguments separated by one space
RECURSIVE Join(_)
Join(args) ==
    IF args = <<>> THEN ""
    ELSE IF Len(args) = 1 THEN args[1]
    ELSE args[1] \o " " \o Join(Tail(args))

Rank(order, x) == IndexOf(order, x)

\* list.sort() of strings that occur in `order`
RECURSIVE ListSort(_, _)
ListSort(s, order) ==
    IF s = <<>> THEN <<>>
    ELSE LET m == CHOOSE i \in 1..Len(s) :
                    \A j \in 1..Len(s) :
                        \/ Rank(order, s[i]) < Rank(order, s[j])
                        \/ (Rank(order, s[i]) = Rank(order, s[j]) /\ i <= j)
         IN  <<s[m]>> \o ListSort(ListRemoveAt(s, m), order)

-----------------------------------------------------------------------------
(* CommitObject and the readers of the repository *)

CommitObject(commit_hash) ==
    [commit_hash |-> commit_hash, parents |-> <<>>, children |-> <<>>,
     temp_parents |-> <<>>]

initialize_temp_parents(commit) == [commit EXCEPT !.temp_parents = commit.parents]

\* branches[sha1] as a position in the dict's item list
BranchIndex(branches0, sha1_hash) ==
    Only({IndexOf([i \in 1..Len(brs) |-> brs[i].sha1_hash], sha1_hash) :
          brs \in {branches0}})

RECURSIVE return_branches(_)
return_branches(files) ==
    IF files = <<>> THEN <<>>
    ELSE Only({
           LET f  == files[Len(files)]
               at == BranchIndex(brs, f.sha1_hash)
           IN  IF at = None
               THEN Append(brs, [sha1_hash |-> f.sha1_hash, names |-> <<f.path>>])
               ELSE [brs EXCEPT ![at].names = Append(@, f.path)] :
           brs \in {return_branches(SubSeq(files, 1, Len(files) - 1))}})

grab_commits(objs) ==
    [i \in 1..Len(objs) |->
        [CommitObject(objs[i].hash) EXCEPT !.parents = objs[i].parents]]

grab_corresponding_commit(commits0, commit_object_or_hash) ==
    Only({IndexOf([i \in 1..Len(cs) |-> cs[i].commit_hash], commit_object_or_hash) :
          cs \in {commits0}})


-----------------------------------------------------------------------------
(* build_commit_graph *)

\* The loop of remove_unvisited_commits: the list iterator is a position
\* in the list, and it moves on by one whether or not the list shrank.
RECURSIVE remove_unvisited_from(_, _, _)
remove_unvisited_from(cs0, keep, at) ==
    Only({
      IF at > Len(cs) THEN cs
      ELSE IF cs[at].commit_hash \notin Range(keep)
           THEN remove_unvisited_from(ListRemoveAt(cs,
                    grab_corresponding_commit(cs, cs[at].commit_hash)), keep, at + 1)
           ELSE remove_unvisited_from(cs, keep, at + 1) :
      cs \in {cs0}})

remove_unvisited_commits(cs, keep) == remove_unvisited_from(cs, keep, 1)

\* list(visited): the keys of the dict. Only membership is ever asked of it.
VisitedList(vis) ==
    LET RECURSIVE Keys(_)
        Keys(S) == IF S = {} THEN <<>>
                   ELSE LET k == CHOOSE k \in S : TRUE
                        IN  <<k>> \o Keys(S \ {k})
    IN  Keys(DOMAIN vis)

\* The locals of build_commit_graph; raised: an AttributeError left the
\* function (an attribute of None was read).
BuildFrame(cs, vis, plist, roots) ==
    [commits |-> cs, visited |-> vis, processing_list |-> plist,
     root_commits |-> roots, raised |-> FALSE]

\* for branch_hash in branches: processing_list.append(branch_hash)
build_seed(brs) == [i \in 1..Len(brs) |-> brs[i].sha1_hash]

\* build_parents with the two lines that link the child moved under the `if`:
\* only a parent seen for the first time gets the child.
RECURSIVE build_parents_links_new_only(_, _, _)
build_parents_links_new_only(f0, commit_hash, parents) ==
    Only({
      IF parents = <<>> THEN f
      ELSE LET parent == Head(parents)
               fresh == parent \notin DOMAIN f.visited
               f1 == IF fresh
                     THEN [f EXCEPT !.processing_list = Append(@, parent),
                                    !.visited = DictPut(@, parent, FALSE)]
                     ELSE f
               parent_commit == grab_corresponding_commit(f1.commits, parent)
           IN  IF fresh /\ parent_commit = None
               THEN [f1 EXCEPT !.raised = TRUE]
               ELSE build_parents_links_new_only(
                        IF fresh
                        THEN [f1 EXCEPT !.commits[parent_commit].children =
                                            Append(@, commit_hash)]
                        ELSE f1,
                        commit_hash, Tail(parents)) :
      f \in {f0}})

\* for parent in commit.parents: ...
RECURSIVE build_parents(_, _, _)
build_parents(f0, commit_hash, parents) ==
    Only({
      IF parents = <<>> THEN f
      ELSE LET parent == Head(parents)
               f1 == IF parent \notin DOMAIN f.visited
                     THEN [f EXCEPT !.processing_list = Append(@, parent),
                                    !.visited = DictPut(@, parent, FALSE)]
                     ELSE f
               parent_commit == grab_corresponding_commit(f1.commits, parent)
           IN  IF parent_commit = None
               THEN [f1 EXCEPT !.raised = TRUE]
               ELSE build_parents(
                        [f1 EXCEPT !.commits[parent_commit].children =
                                        Append(@, commit_hash)],
                        commit_hash, Tail(parents)) :
      f \in {f0}})

\* build_visit without the `continue` for a hash already visited
build_visit_without_skip(f, commit_hash) ==
    LET f1 == [f EXCEPT !.visited = DictPut(@, commit_hash, TRUE)]
        commit == grab_corresponding_commit(f1.commits, commit_hash)
    IN  IF commit = None
        THEN [f1 EXCEPT !.raised = TRUE]
        ELSE LET f2 == IF f1.commits[commit].parents = <<>>
                       THEN [f1 EXCEPT !.root_commits = Append(@, commit_hash)]
                       ELSE f1
             IN  build_parents(f2, commit_hash, f1.commits[commit].parents)

\* One iteration of `for commit_hash in processing_list`.
build_visit(f, commit_hash) ==
    IF commit_hash \in DOMAIN f.visited /\ f.visited[commit_hash] = TRUE
    THEN f
    ELSE LET f1 == [f EXCEPT !.visited = DictPut(@, commit_hash, TRUE)]
             commit == grab_corresponding_commit(f1.commits, commit_hash)
         IN  IF commit = None
             THEN [f1 EXCEPT !.raised = TRUE]
             ELSE LET f2 == IF f1.commits[commit].parents = <<>>
                            THEN [f1 EXCEPT !.root_commits = Append(@, commit_hash)]
                            ELSE f1
                  IN  build_parents(f2, commit_hash, f1.commits[commit].parents)

\* visited = list(visited); remove_unvisited_commits(commits, visited)
build_finish(f) ==
    [f EXCEPT !.commits = remove_unvisited_commits(@, VisitedList(f.visited))]

\* build_commit_graph as a whole: the worklist run to its end.
RECURSIVE build_loop(_, _)
build_loop(f0, at) ==
    Only({IF f.raised \/ at > Len(f.processing_list) THEN f
          ELSE build_loop(build_visit(f, f.processing_list[at]), at + 1) :
          f \in {f0}})

build_commit_graph(brs, cs) ==
    LET f == build_loop(BuildFrame(cs, <<>>, build_seed(brs), <<>>), 1)
    IN  IF f.raised THEN f ELSE build_finish(f)

-----------------------------------------------------------------------------
(* topological_sort *)

\* The locals of topological_sort; processing_list is root_commits itself.
SortFrame(cs, roots, sorted, err) ==
    [commits |-> cs, root_commits |-> roots, sorted_list |-> sorted,
     stderr |-> err, raised |-> FALSE]

\* for commit in commits: commit.initialize_temp_parents()
sort_init(cs) == [i \in 1..Len(cs) |-> initialize_temp_parents(cs[i])]

\* sort_children without the test `if not child_commit.temp_parents`: the
\* child joins the worklist whatever parents it still waits for.
RECURSIVE sort_children_always_append(_, _, _)
sort_children_always_append(g0, commit_hash, children) ==
    Only({
      IF children = <<>> THEN g
      ELSE LET child == Head(children)
               child_commit == grab_corresponding_commit(g.commits, child)
           IN  IF child_commit = None
               THEN [g EXCEPT !.raised = TRUE]
               ELSE LET g1 == IF commit_hash \in Range(g.commits[child_commit].temp_parents)
                              THEN [g EXCEPT !.commits[child_commit].temp_parents =
                                                 ListRemove(@, commit_hash)]
                              ELSE [g EXCEPT !.stderr =
                                       Append(@, "attempting to remove nonexisting parent")]
                        g2 == [g1 EXCEPT !.root_commits = Append(@, child)]
                    IN  sort_children_always_append(g2, commit_hash, Tail(children)) :
      g \in {g0}})

\* for child in commit.children: ...
RECURSIVE sort_children(_, _, _)
sort_children(g0, commit_hash, children) ==
    Only({
      IF children = <<>> THEN g
      ELSE LET child == Head(children)
               child_commit == grab_corresponding_commit(g.commits, child)
           IN  IF child_commit = None
               THEN [g EXCEPT !.raised = TRUE]
               ELSE LET g1 == IF commit_hash \in Range(g.commits[child_commit].temp_parents)
                              THEN [g EXCEPT !.commits[child_commit].temp_parents =
                                                 ListRemove(@, commit_hash)]
                              ELSE [g EXCEPT !.stderr =
                                       Append(@, "attempting to remove nonexisting parent")]
                        g2 == IF g1.commits[child_commit].temp_parents = <<>>
                              THEN [g1 EXCEPT !.root_commits = Append(@, child)]
                              ELSE g1
                    IN  sort_children(g2, commit_hash, Tail(children)) :
      g \in {g0}})

\* One iteration of `for commit_hash in processing_list`.
sort_visit(g, commit_hash) ==
    LET g1 == [g EXCEPT !.sorted_list = Append(@, commit_hash)]
        commit == grab_corresponding_commit(g1.commits, commit_hash)
    IN  IF commit = None
        THEN [g1 EXCEPT !.raised = TRUE]
        ELSE sort_children(g1, commit_hash, g1.commits[commit].children)

\* sort_check without the loop that looks for parents left over
sort_check_without_cycle_check(cs, sorted) ==
    IF Len(cs) # Len(sorted)
    THEN "failure to generate topological sort"
    ELSE NoneHash

\* sort_check without the comparison of the lengths
sort_check_without_length_check(cs, sorted) ==
    IF \E i \in 1..Len(cs) : cs[i].temp_parents # <<>>
    THEN "cycle in .git graph detected"
    ELSE NoneHash

\* The checks after the loop: the message of the sys.exit(1) taken, or
\* None when sorted_list is returned.
sort_check(cs, sorted) ==
    IF \E i \in 1..Len(cs) : cs[i].temp_parents # <<>>
    THEN "cycle in .git graph detected"
    ELSE IF Len(cs) # Len(sorted)
         THEN "failure to generate topological sort"
         ELSE NoneHash

\* topological_sort as a whole: its loop run to the end, then the checks.
RECURSIVE sort_loop(_, _)
sort_loop(g0, at) ==
    Only({IF g.raised \/ at > Len(g.root_commits) THEN g
          ELSE sort_loop(sort_visit(g, g.root_commits[at]), at + 1) :
          g \in {g0}})

topological_sort(cs, roots) ==
    LET g == sort_loop(SortFrame(sort_init(cs), roots, <<>>, <<>>), 1)
    IN  [sorted_list |-> g.sorted_list,
         exit |-> IF g.raised THEN "AttributeError"
                  ELSE sort_check(g.commits, g.sorted_list)]

-----------------------------------------------------------------------------
(* print_sticky_sorted_order *)

\* zip(topo_ordered_commits, topo_ordered_commits[1:] + [None])[k][1]
zip_next(order, k) == IF k < Len(order) THEN order[k + 1] ELSE NoneHash

\* print_step without `next_hash is not None` in its last test
print_step_marks_last(cs, brs, flag, current_hash, next_hash) ==
    LET current_commit == grab_corresponding_commit(cs, current_hash)
        at == BranchIndex(brs, current_hash)
        children_line == IF flag
                         THEN <<"=" \o Join(cs[current_commit].children)>>
                         ELSE <<>>
        hash_line == IF at = None
                     THEN <<Join(<<current_hash>>)>>
                     ELSE <<Join(<<current_hash>> \o brs[at].names)>>
        broken == next_hash \notin Range(cs[current_commit].parents)
        parents_lines == IF broken
                         THEN <<Join(cs[current_commit].parents) \o "=", "">>
                         ELSE <<>>
    IN  [raised |-> current_commit = None,
         lines |-> IF current_commit = None THEN <<>>
                   ELSE children_line \o hash_line \o parents_lines,
         prev_empty |-> IF current_commit = None THEN flag ELSE broken]

\* The lines one iteration of the loop prints, and the flag it leaves.
print_step(cs, brs, flag, current_hash, next_hash) ==
    LET current_commit == grab_corresponding_commit(cs, current_hash)
        at == BranchIndex(brs, current_hash)
        children_line == IF flag
                         THEN <<"=" \o Join(cs[current_commit].children)>>
                         ELSE <<>>
        hash_line == IF at = None
                     THEN <<Join(<<current_hash>>)>>
                     ELSE <<Join(<<current_hash>> \o brs[at].names)>>
        broken == next_hash # NoneHash
                  /\ next_hash \notin Range(cs[current_commit].parents)
        parents_lines == IF broken
                         THEN <<Join(cs[current_commit].parents) \o "=", "">>
                         ELSE <<>>
    IN  [raised |-> current_commit = None,
         lines |-> IF current_commit = None THEN <<>>
                   ELSE children_line \o hash_line \o parents_lines,
         prev_empty |-> IF current_commit = None THEN flag ELSE broken]

\* for branch in branches: branches[branch].sort()
sort_branch_names(brs) ==
    [i \in 1..Len(brs) |-> [brs[i] EXCEPT !.names = ListSort(@, NameOrder)]]

-----------------------------------------------------------------------------
(* The repositories of the model *)

Universe(n) == {HashNames[i] : i \in 1..n}

ParentLists(n, most) == UNION {[1..l -> Universe(n)] : l \in 0..most}

\* The parent lists of k objects, `most` parent lines in all.
RECURSIVE ParentLines(_, _, _)
ParentLines(k, most, n) ==
    IF k = 0 THEN {<<>>}
    ELSE UNION {{<<p>> \o rest : rest \in ParentLines(k - 1, most - Len(p), n)} :
                   p \in ParentLists(n, most)}

\* The ref files of the model: r files that hold hashes among the first n.
RefFiles(r, n) ==
    {[i \in 1..r |-> [path |-> BranchPaths[i], sha1_hash |-> hs[i]]] :
        hs \in [1..r -> Universe(n)]}

\* The object files of the model: k commits, named after their place in
\* the enumeration, with `most` parent lines in all among the first n hashes.
ObjectFiles(k, most, n) ==
    {[i \in 1..k |-> [hash |-> HashNames[i], parents |-> ps[i]]] :
        ps \in ParentLines(k, most, n)}

\* The numbers of objects that go with these ref files: the repository is of
\* size MaxSize at most, and every hash is an object's or the one after.
ObjectCounts(files) ==
    {k \in 1..(Len(HashNames) - 1) :
        /\ k + Len(files) <= MaxSize
        /\ \A i \in 1..Len(files) : files[i].sha1_hash \in Universe(k + 1)}

Init ==
    /\ refs = <<>>
    /\ objects = <<>>
    /\ branches = <<>>
    /\ commits = <<>>
    /\ root_commits = <<>>
    /\ visited = <<>>
    /\ processing_list = <<>>
    /\ it = 1
    /\ sorted_list = <<>>
    /\ topo_ordered_commits = <<>>
    /\ prev_empty = FALSE
    /\ stdout = <<>>
    /\ stderr = <<>>
    /\ pc = "start"

-----------------------------------------------------------------------------
(* Steps *)

\* branches = return_branches(): the ref files are read.
ReadBranches ==
    /\ pc = "start"
    /\ \E r \in 1..Len(BranchPaths) : \E files \in RefFiles(r, Len(HashNames)) :
         /\ ObjectCounts(files) # {}
         /\ refs' = files
         /\ branches' = return_branches(files)
    /\ pc' = "grab_commits"
    /\ UNCHANGED <<objects, commits, root_commits, visited, processing_list, it,
                   sorted_list, topo_ordered_commits, prev_empty, stdout, stderr>>

\* commits = grab_commits(); root_commits = []; build_commit_graph is entered
\* and its worklist takes the branch heads.
ReadCommits ==
    /\ pc = "grab_commits"
    /\ \E k \in ObjectCounts(refs) :
         \E objs \in ObjectFiles(k, MaxSize - k - Len(refs), k + 1) :
            /\ objects' = objs
            /\ commits' = grab_commits(objs)
    /\ root_commits' = <<>>
    /\ visited' = <<>>
    /\ processing_list' = build_seed(branches)
    /\ it' = 1
    /\ pc' = "build"
    /\ UNCHANGED <<refs, branches, sorted_list, topo_ordered_commits, prev_empty,
                   stdout, stderr>>

BuildVisit ==
    /\ pc = "build"
    /\ it <= Len(processing_list)
    /\ Len(processing_list) <= MaxWorklist
    /\ \E f \in {build_visit(BuildFrame(commits, visited, processing_list,
                                       root_commits), processing_list[it])} :
           /\ commits' = f.commits
           /\ visited' = f.visited
           /\ processing_list' = f.processing_list
           /\ root_commits' = f.root_commits
           /\ pc' = IF f.raised THEN "raised" ELSE "build"
           /\ it' = it + 1
    /\ UNCHANGED <<refs, objects, branches, sorted_list, topo_ordered_commits,
                   prev_empty, stdout, stderr>>

BuildFinish ==
    /\ pc = "build"
    /\ it > Len(processing_list)
    /\ commits' = build_finish(BuildFrame(commits, visited, processing_list,
                                          root_commits)).commits
    /\ pc' = "sort_init"
    /\ it' = 1
    /\ UNCHANGED <<refs, objects, branches, root_commits, visited, processing_list,
                   sorted_list, topo_ordered_commits, prev_empty, stdout, stderr>>

SortInit ==
    /\ pc = "sort_init"
    /\ commits' = sort_init(commits)
    /\ sorted_list' = <<>>
    /\ it' = 1
    /\ pc' = "sort"
    /\ UNCHANGED <<refs, objects, branches, root_commits, visited, processing_list,
                   topo_ordered_commits, prev_empty, stdout, stderr>>

SortVisit ==
    /\ pc = "sort"
    /\ it <= Len(root_commits)
    /\ Len(root_commits) <= MaxWorklist
    /\ \E g \in {sort_visit(SortFrame(commits, root_commits, sorted_list, stderr),
                            root_commits[it])} :
           /\ commits' = g.commits
           /\ root_commits' = g.root_commits
           /\ sorted_list' = g.sorted_list
           /\ stderr' = g.stderr
           /\ pc' = IF g.raised THEN "raised" ELSE "sort"
           /\ it' = it + 1
    /\ UNCHANGED <<refs, objects, branches, visited, processing_list,
                   topo_ordered_commits, prev_empty, stdout>>

\* The loop is over: sys.exit(1) with a message, or return sorted_list.
SortFinish ==
    /\ pc = "sort"
    /\ it > Len(root_commits)
    /\ \E msg \in {sort_check(commits, sorted_list)} :
           IF msg # NoneHash
           THEN /\ stderr' = Append(stderr, msg)
                /\ pc' = "exit"
           ELSE /\ stderr' = stderr
                /\ pc' = "reverse"
    /\ UNCHANGED <<refs, objects, branches, commits, root_commits, visited,
                   processing_list, it, sorted_list, topo_ordered_commits,
                   prev_empty, stdout>>

\* topo_ordered_commits.reverse() and the sort of every branch's names
ReverseOrder ==
    /\ pc = "reverse"
    /\ topo_ordered_commits' = Reverse(sorted_list)
    /\ branches' = sort_branch_names(branches)
    /\ prev_empty' = FALSE
    /\ it' = 1
    /\ pc' = "print"
    /\ UNCHANGED <<refs, objects, commits, root_commits, visited, processing_list,
                   sorted_list, stdout, stderr>>

PrintStep ==
    /\ pc = "print"
    /\ it <= Len(topo_ordered_commits)
    /\ \E p \in {print_step(commits, branches, prev_empty, topo_ordered_commits[it],
                            zip_next(topo_ordered_commits, it))} :
           /\ stdout' = stdout \o p.lines
           /\ prev_empty' = p.prev_empty
           /\ pc' = IF p.raised THEN "raised" ELSE "print"
    /\ it' = it + 1
    /\ UNCHANGED <<refs, objects, branches, commits, root_commits, visited,
                   processing_list, sorted_list, topo_ordered_commits, stderr>>

\* print_sticky_sorted_order returns and the interpreter exits with status 0
PrintFinish ==
    /\ pc = "print"
    /\ it > Len(topo_ordered_commits)
    /\ pc' = "done"
    /\ UNCHANGED <<refs, objects, branches, commits, root_commits, visited,
                   processing_list, it, sorted_list, topo_ordered_commits,
                   prev_empty, stdout, stderr>>

\* The steps of the run once the repository is read
Run ==
    \/ BuildVisit
    \/ BuildFinish
    \/ SortInit
    \/ SortVisit
    \/ SortFinish
    \/ ReverseOrder
    \/ PrintStep
    \/ PrintFinish

Next == ReadBranches \/ ReadCommits \/ Run

Spec == Init /\ [][Next]_vars

\* The interpreter runs the one thread of the program to its end.
LiveSpec == Spec /\ WF_vars(Run)

-----------------------------------------------------------------------------
(* The commit graph of the repository on disk *)

Records == {objects[i].hash : i \in 1..Len(objects)}

Heads == {refs[i].sha1_hash : i \in 1..Len(refs)}

ParentsOf(h) ==
    IF h \in Records
    THEN objects[CHOOSE i \in 1..Len(objects) : objects[i].hash = h].parents
    ELSE <<>>

RECURSIVE Closure(_)
Closure(S) ==
    LET N == S \cup UNION {Range(ParentsOf(h)) : h \in S}
    IN  IF N = S THEN S ELSE Closure(N)

\* Hashes reachable from the branch heads through parent edges
Reachable == Closure(Heads)

Ancestors(h) == Closure(Range(ParentsOf(h)))

ReachableAcyclic == \A h \in Reachable : h \notin Ancestors(h)

\* Every branch head and every parent of a reachable commit has an object.
ReachablePresent == Reachable \subseteq Records

\* Every branch head and every parent line of every object has an object.
ReferencedPresent ==
    Heads \cup UNION {Range(objects[i].parents) : i \in 1..Len(objects)}
        \subseteq Records

Hashes(cs) == {cs[i].commit_hash : i \in 1..Len(cs)}

NoDuplicates(s) == \A i, j \in 1..Len(s) : s[i] = s[j] => i = j

Count(s, x) == Cardinality({i \in 1..Len(s) : s[i] = x})

BuildReturned == pc \in {"sort_init", "sort", "exit", "reverse", "print", "done"}

SortReturned == pc \in {"reverse", "print", "done"}

-----------------------------------------------------------------------------
(* Claims *)

\* C1: for an acyclic reachable graph with every referenced hash present,
\* build_commit_graph followed by topological_sort does not exit with an
\* error, and returns as many hashes as there are reachable commits, every
\* parent before its child.
C1_SortsAcyclicInput ==
    (ReferencedPresent /\ ReachableAcyclic /\ pc \in {"exit", "reverse"})
        => /\ pc = "reverse"
           /\ Len(sorted_list) = Cardinality(Reachable)
           /\ \A child \in Reachable : \A parent \in Range(ParentsOf(child)) :
                  /\ IndexOf(sorted_list, parent) # None
                  /\ IndexOf(sorted_list, child) # None
                  /\ IndexOf(sorted_list, parent) < IndexOf(sorted_list, child)

\* C2: when the graph reachable from the branch heads has a cycle (every
\* reachable hash present), nothing is ever written to stdout, the run never
\* gets past topological_sort, and an exit is the cycle-detected one.
C2_CycleRejected ==
    (ReachablePresent /\ ~ReachableAcyclic)
        => /\ stdout = <<>>
           /\ pc \in {"build", "sort_init", "sort", "exit"}
           /\ (pc = "exit" => stderr = <<"cycle in .git graph detected">>)

C2_Witness ==
    /\ ReachablePresent
    /\ ~ReachableAcyclic
    /\ pc = "exit"
    /\ stderr = <<"cycle in .git graph detected">>
    /\ sorted_list # <<>>

\* C3: when build_commit_graph has returned, the commits list holds exactly
\* the commits reachable from the branch heads.
C3_ExactlyReachableKept ==
    (ReferencedPresent /\ BuildReturned)
        => /\ Hashes(commits) = Reachable
           /\ Len(commits) = Cardinality(Reachable)

\* C4: a branch head or a parent of a reachable commit without an object
\* ends the run in a fatal error of the program's own: sys.exit(1) after
\* exactly one message, never an exception that nobody catches.
C4_MissingCommitError ==
    (~ReachablePresent /\ pc \in {"exit", "raised", "done"})
        => /\ pc = "exit"
           /\ Len(stderr) = 1

\* The parents and children of a commit of the graph in memory
ParentsIn(cs, h) == cs[grab_corresponding_commit(cs, h)].parents
ChildrenIn(cs, h) == cs[grab_corresponding_commit(cs, h)].children

\* The k-th printed commit is followed by one of its parents.
Sticky(k) ==
    topo_ordered_commits[k + 1] \in Range(ParentsIn(commits, topo_ordered_commits[k]))

\* Where the k-th commit's line is, when a commit that is a parent of the one
\* before it comes on the next line and any other commit three lines later.
RECURSIVE LineOf(_)
LineOf(k) == IF k = 1 THEN 1 ELSE LineOf(k - 1) + (IF Sticky(k - 1) THEN 1 ELSE 4)

\* The hash and the sorted names of the ref files that hold it
CommitLine(h) ==
    LET pointing == SelectSeq(refs, LAMBDA f : f.sha1_hash = h)
    IN  Join(<<h>> \o ListSort([i \in 1..Len(pointing) |-> pointing[i].path],
                               NameOrder))

\* C5: in the finished output the first line is the first commit's, the last
\* line is the last commit's, and for consecutive commits (current, next):
\* when next is a parent of current, next's line follows current's at once;
\* otherwise exactly three lines lie between them: current's parents followed
\* by "=", an empty line, and "=" followed by next's children.
C5_StickyLayout ==
    pc = "done" =>
        LET n == Len(topo_ordered_commits)
        IN  /\ n > 0
            /\ Len(stdout) = LineOf(n)
            /\ \A k \in 1..n : stdout[LineOf(k)] = CommitLine(topo_ordered_commits[k])
            /\ \A k \in 1..(n - 1) :
                  ~Sticky(k) =>
                     /\ stdout[LineOf(k) + 1] =
                            Join(ParentsIn(commits, topo_ordered_commits[k])) \o "="
                     /\ stdout[LineOf(k) + 2] = ""
                     /\ stdout[LineOf(k) + 3] =
                            "=" \o Join(ChildrenIn(commits, topo_ordered_commits[k + 1]))

C5_Witness ==
    /\ pc = "done"
    /\ \E k \in 1..(Len(topo_ordered_commits) - 1) : Sticky(k)
    /\ \E k \in 1..(Len(topo_ordered_commits) - 1) :
          /\ ~Sticky(k)
          /\ ParentsIn(commits, topo_ordered_commits[k]) # <<>>

\* The ref files of the repository in every order os.walk may yield them
RefOrders ==
    {[i \in 1..Len(refs) |-> refs[p[i]]] : p \in Permutations(1..Len(refs))}

\* C6: the root order and the children lists that build_commit_graph leaves,
\* and the sequence topological_sort returns, are those of every run over the
\* same objects and the same ref files enumerated in another order.
C6_EnumerationOrderIrrelevant ==
    \A files \in RefOrders :
        LET f == build_commit_graph(return_branches(files), grab_commits(objects))
        IN  /\ pc = "sort_init" =>
                  /\ ~f.raised
                  /\ f.root_commits = root_commits
                  /\ f.commits = commits
            /\ pc = "reverse" =>
                  /\ ~f.raised
                  /\ topological_sort(f.commits, f.root_commits).exit = NoneHash
                  /\ topological_sort(f.commits, f.root_commits).sorted_list
                         = sorted_list

\* The run step by step is the run of the functions as wholes.
StepsAreTheFunctions ==
    LET f == build_commit_graph(return_branches(refs), grab_commits(objects))
        r == topological_sort(f.commits, f.root_commits)
    IN  /\ pc = "sort_init" =>
              (~f.raised /\ f.root_commits = root_commits /\ f.commits = commits)
        /\ pc = "reverse" => (r.exit = NoneHash /\ r.sorted_list = sorted_list)
        /\ pc = "exit" => r.exit = stderr[Len(stderr)]
        /\ pc = "raised" => (f.raised \/ r.exit = "AttributeError")

\* C7: a list that topological_sort returns holds every commit of the
\* commits list exactly once and nothing else, every commit after all the
\* commits its parents list names.
C7_ReturnedListIsTopological ==
    SortReturned =>
        /\ \A i \in 1..Len(commits) : Count(sorted_list, commits[i].commit_hash) = 1
        /\ Range(sorted_list) \subseteq Hashes(commits)
        /\ \A i \in 1..Len(commits) : \A parent \in Range(commits[i].parents) :
              /\ IndexOf(sorted_list, parent) # None
              /\ IndexOf(sorted_list, parent)
                     < IndexOf(sorted_list, commits[i].commit_hash)

C7_Witness ==
    /\ SortReturned
    /\ Len(sorted_list) >= 3
    /\ \E i \in 1..Len(commits) : Cardinality(Range(commits[i].parents)) >= 2

\* C8: after build_commit_graph no children list holds a hash twice.
C8_NoDuplicateChildren ==
    BuildReturned => \A i \in 1..Len(commits) : NoDuplicates(commits[i].children)

\* C8, amended: after build_commit_graph the children list of a commit P
\* holds a hash C as many times as the object of C lists P as a parent when
\* C is reachable from a branch head, and not at all otherwise.
C8_ChildrenMirrorParentLines ==
    BuildReturned =>
        \A i \in 1..Len(commits) : \A c \in Universe(Len(HashNames)) :
            Count(commits[i].children, c) =
                IF c \in Reachable
                THEN Count(ParentsOf(c), commits[i].commit_hash)
                ELSE 0

C8_Witness ==
    /\ BuildReturned
    /\ \E i \in 1..Len(commits) : ~NoDuplicates(commits[i].children)

\* C9: with every reachable hash present, topological_sort never takes the
\* 'attempting to remove nonexisting parent' branch, and no hash enters its
\* worklist or the sorted list twice; cycles and parents declared twice
\* included.
C9_RemovalsSucceed ==
    ReachablePresent =>
        /\ "attempting to remove nonexisting parent" \notin Range(stderr)
        /\ NoDuplicates(root_commits)
        /\ NoDuplicates(sorted_list)

C9_Witness ==
    /\ ReachablePresent
    /\ pc = "reverse"
    /\ \E i \in 1..Len(commits) :
          /\ ~NoDuplicates(commits[i].parents)
          /\ commits[i].commit_hash \in Range(sorted_list)

\* The worklists take every hash once: build's beyond the branch heads it
\* starts with, sort's altogether.
WorklistsAppendOnce ==
    /\ NoDuplicates(SubSeq(processing_list, Len(branches) + 1, Len(processing_list)))
    /\ NoDuplicates(root_commits)

\* C10: with every reachable hash present, cycles and self-parents
\* included, the loops over the growing worklists end: the run reaches the
\* printed ordering or a fatal exit, and no hash is appended to a worklist
\* twice.  (A run ends in "done", "exit" or "raised", and with every
\* reachable hash present it is never "raised".)
C10_Terminates ==
    /\ [](ReachablePresent => (WorklistsAppendOnce /\ pc # "raised"))
    /\ (pc = "build") ~> (pc \in {"done", "exit", "raised"})

C10_Witness ==
    /\ ReachablePresent
    /\ pc = "exit"
    /\ \E h \in Reachable : h \in Range(ParentsOf(h))
    /\ \E h \in Reachable : h \notin Range(ParentsOf(h)) /\ h \in Ancestors(h)

=============================================================================
